---- MODULE Spec2Model ----
(***************************************************************************)
(* Model of the staking rewarder (src/python/staking_rewarder/service.py). *)
(*                                                                         *)
(* The ledger is a chain of blocks, each holding one stake transaction;    *)
(* the database holds distribution rounds, reward distributions and the    *)
(* two checkpoint keys.  StakingRewarder keeps two sessions: db_session,   *)
(* whose flushed writes stay pending until commit, and                     *)
(* auto_commit_session, whose "with begin()" blocks commit on exit.        *)
(* The sessions are the ones the test fixtures build (autobegin on, a      *)
(* statement reads the committed rows plus the session's own pending       *)
(* writes).                                                                *)
(*                                                                         *)
(* Amounts are counted in units of TokensPerUnit tokens, which drops 21    *)
(* decimal digits from the wei amounts of the program (the pool of 250,000 *)
(* tokens, 24 digits in wei, is 200 units).  Decimal arithmetic is the     *)
(* arithmetic of Python's default context, rounding half to even, with the *)
(* same 21 digits dropped from its precision of 28: DecimalPrec digits.    *)
(* A Decimal is a pair <<c, e>> that stands for c * 10^(-e).  The rows     *)
(* keep the Decimal percentage (the DOUBLE PRECISION column's rounding is  *)
(* not modelled).                                                          *)
(***************************************************************************)
EXTENDS Integers, Sequences, FiniteSets, TLC

\* ---------------------------------------------------------------- bounds
MaxBlock == 2          \* stake transactions (blocks) the ledger may hold
MaxMonth == 2          \* months of FirstYear that callers ask about
MicrosPerMonth == 2    \* clock ticks in a month (scaled microseconds)

\* ------------------------------------------------------ program constants
FirstYear == 2022
GenesisBlock == 0
TokensPerUnit == 1250
monthly_revenue == 800       \* to_wei(1_000_000, "ether"), in units
DecimalPrec == 7             \* decimal.getcontext().prec, 21 digits dropped
min_reward_amount == 0

Addresses == {"alice", "bob"}
\* the stake transactions, in units: alice 10,000 tokens; bob 20,000 tokens,
\* 70,000 tokens, or a stake next to which alice's is a 5,000,000th
Stakes == {<<"alice", 8>>, <<"bob", 16>>, <<"bob", 56>>, <<"bob", 39999992>>}
\* the ledger read of figure_out_rewards_for_month that fails, if any
Faults == {"none", "closest_block", "staked"}

RewardState == {"sent", "sending", "unsent"}

VARIABLES
    now,        \* the wall clock and ledger time, in ticks
    chain,      \* the ledger: block i is chain[i] = [timestamp, user, amount]
    transfers,  \* token transfers submitted by the distributor account
    rounds,     \* committed distribution_round rows
    rewards,    \* committed reward_distribution rows
    kv,         \* committed key_value_pair rows (the two checkpoint keys)
    session,    \* db_session: rows flushed but not committed
    last_scanned_block_number,   \* StakingRewarder.last_scanned_block_number
    pc,         \* position of the running distribute_rewards call
    run,        \* locals of the running distribute_rewards call
    outcome,    \* what the call that just returned did (reset by any other step)
    peer        \* a second run of the script, inside figure_out_rewards_for_month

vars == <<now, chain, transfers, rounds, rewards, kv, session,
          last_scanned_block_number, pc, run, outcome, peer>>

\* ------------------------------------------------------------ arithmetic
RECURSIVE Pow10(_)
Pow10(k) == IF k = 0 THEN 1 ELSE 10 * Pow10(k - 1)

RECURSIVE Digits(_)
\* the number of decimal digits of n (none for 0)
Digits(n) == IF n = 0 THEN 0 ELSE 1 + Digits(n \div 10)

RECURSIVE Canonical(_)
\* the Decimal d without trailing zeros after the point
Canonical(d) ==
    IF d[1] = 0 THEN <<0, 0>>
    ELSE IF d[2] > 0 /\ d[1] % 10 = 0 THEN Canonical(<<d[1] \div 10, d[2] - 1>>)
    ELSE d

\* ROUND_HALF_EVEN: q, followed by a rest of twiceRest / (2 * unit) of a step
RoundHalfEven(q, twiceRest, unit) ==
    IF twiceRest > unit \/ (twiceRest = unit /\ q % 2 = 1) THEN q + 1 ELSE q

\* m * 10^(-e), rounded to the precision of the context
Rounded(m, e) ==
    LET k == Digits(m) - DecimalPrec IN
    IF k <= 0 THEN Canonical(<<m, e>>)
    ELSE Canonical(<<RoundHalfEven(m \div Pow10(k), 2 * (m % Pow10(k)), Pow10(k)),
                     e - k>>)

RECURSIVE Quotient(_, _, _, _)
\* long division: digits are added until the coefficient fills the precision
\* or nothing remains, and the remainder decides the rounding
Quotient(c, rem, divisor, e) ==
    IF rem = 0 \/ Digits(c) >= DecimalPrec
    THEN Canonical(<<RoundHalfEven(c, 2 * rem, divisor), e>>)
    ELSE Quotient(c * 10 + (rem * 10) \div divisor, (rem * 10) % divisor,
                  divisor, e + 1)

\* Decimal(n) / divisor, for n that does not exceed the divisor
DecimalDivide(n, divisor) == Quotient(n \div divisor, n % divisor, divisor, 0)

\* n * d for an integer n and a Decimal d
DecimalTimes(n, d) == Rounded(n * d[1], d[2])

\* int(d): the digits after the point are cut off
IntOf(d) ==
    IF d[2] <= 0 THEN d[1] * Pow10(0 - d[2])
    ELSE IF d[2] >= Digits(d[1]) THEN 0
    ELSE d[1] \div Pow10(d[2])

RECURSIVE SumOver(_, _)
\* the sum of f[x] over the finite set S
SumOver(S, f) ==
    IF S = {} THEN 0
    ELSE LET x == CHOOSE y \in S : TRUE IN f[x] + SumOver(S \ {x}, f)

Range(s) == {s[i] : i \in DOMAIN s}

\* the sequences that list the finite set S once each, in any order
Orders(S) ==
    {f \in [1..Cardinality(S) -> S] : \A i, j \in DOMAIN f : i # j => f[i] # f[j]}

\* --------------------------------------------------------------- ledger
Height == Len(chain)

BlockTime(b) == IF b = GenesisBlock THEN 0 ELSE chain[b].timestamp

\* staked(user).call(block_identifier = b)
staked(user, b) ==
    SumOver({i \in 1..Height : i <= b /\ chain[i].user = user},
            [i \in 1..Height |-> chain[i].amount])

\* totalAmountStaked().call(block_identifier = b)
totalAmountStaked(b) ==
    SumOver({i \in 1..Height : i <= b}, [i \in 1..Height |-> chain[i].amount])

Distance(a, b) == IF a >= b THEN a - b ELSE b - a

\* the blocks whose timestamp is closest to the instant
get_closest_block(instant) ==
    {b \in GenesisBlock..Height :
        \A c \in GenesisBlock..Height :
            Distance(BlockTime(b), instant) <= Distance(BlockTime(c), instant)}

\* ---------------------------------------------------------------- time
MonthIndex(year, month) == (year - FirstYear) * 12 + (month - 1)

get_last_day_of_month(year, month) ==
    (MonthIndex(year, month) + 1) * MicrosPerMonth - 1

\* mutant: the calendar check always passes
has_month_passed_Always(last_day_of_month) == TRUE

has_month_passed(last_day_of_month) == last_day_of_month <= now

MaxNow == MaxMonth * MicrosPerMonth - 1

\* ------------------------------------------------------------- database
NoKV == [hasBlock |-> FALSE, block |-> 0, hasStakers |-> FALSE, stakers |-> <<>>]
NoSession == [rounds |-> {}, kvWritten |-> FALSE, kv |-> NoKV]
NoRun == [queue |-> <<>>, idx |-> 0, nonce |-> 0, tx_hash |-> <<>>]
\* the second process between calls: its db_session holds nothing
NoPeer == [at |-> "idle", year |-> 0, month |-> 0, rounds |-> {}]
NoCall == [op |-> "none", year |-> 0, month |-> 0, ret |-> "None",
           alert |-> FALSE, queries |-> 0, value |-> <<>>,
           error |-> "none", raised |-> "none"]

\* what db_session reads: committed rows and its own pending writes
ViewRounds == rounds \cup session.rounds
ViewKV == IF session.kvWritten THEN session.kv ELSE kv

\* the next value of a table's primary key
FreshId(rows) ==
    IF rows = {} THEN 1
    ELSE 1 + (CHOOSE n \in {r.id : r \in rows} : \A r \in rows : r.id <= n)

\* mutant: the look-up never finds the round
get_distribution_round_Blind(year, month) == {}

\* mutant: the look-up misses the rounds the session has not committed
get_distribution_round_CommittedOnly(year, month) ==
    {r \in rounds : r.year = year /\ r.month = month}

get_distribution_round(year, month) ==
    {r \in ViewRounds : r.year = year /\ r.month = month}

Init ==
    /\ now = 0
    /\ chain = <<>>
    /\ transfers = <<>>
    /\ rounds = {}
    /\ rewards = {}
    /\ kv = NoKV
    /\ session = NoSession
    /\ last_scanned_block_number = GenesisBlock
    /\ pc = "idle"
    /\ run = NoRun
    /\ outcome = NoCall
    /\ peer = NoPeer

\* ------------------------------------------------------- reward calculator
\* mutant: an integer division in place of the Decimal one
Percentage_Truncated(stake, total) == <<stake \div total, 0>>

\* Decimal(str(staked)) / total_amount_staked
Percentage(stake, total) == DecimalDivide(stake, total)

\* a Reward of get_rewards_at_block, for one address
RewardAt(user_address, block_number) ==
    [user_address |-> user_address,
     percentage |-> Percentage(staked(user_address, block_number),
                               totalAmountStaked(block_number)),
     state |-> "unsent",
     amount_wei |-> 0]

\* get_rewards_at_block, given that totalAmountStaked is not zero
get_rewards_at_block(user_addresses, block_number) ==
    [i \in DOMAIN user_addresses |-> RewardAt(user_addresses[i], block_number)]

\* a division by zero: some address is divided by a total of zero
RewardsDivideByZero(user_addresses, block_number) ==
    user_addresses # <<>> /\ totalAmountStaked(block_number) = 0

\* the ledger reads of get_rewards_at_block
RewardQueries(user_addresses) ==
    IF user_addresses = <<>> THEN 0 ELSE 1 + Len(user_addresses)

\* int(monthly_revenue * Decimal("0.25"))
total_reward_to_distribute == IntOf(DecimalTimes(monthly_revenue, <<25, 2>>))

\* int(total_reward_to_distribute * reward.percentage)
AmountWei(percentage) == IntOf(DecimalTimes(total_reward_to_distribute, percentage))

\* ------------------------------------------------------------ the scanner
\* the users of the Staked events of the range (an unstake emits none)
get_staker_addresses_from_events(start_block_number, end_block_number) ==
    {chain[i].user : i \in {j \in 1..Height :
                              /\ start_block_number <= j /\ j <= end_block_number
                              /\ chain[j].amount > 0}}

\* mutant: the stored checkpoint is not read back into the attribute
ScanStart_AttributeOnly == last_scanned_block_number

\* the block get_stakers scans from: the stored checkpoint, else the attribute
ScanStart == IF ViewKV.hasBlock THEN ViewKV.block ELSE last_scanned_block_number

\* mutant: get_stakers never answers from the cache
UsesCache_Never(end_block_number) == FALSE

\* whether get_stakers answers from the cache
UsesCache(end_block_number) == end_block_number < ScanStart

\* the cached list get_stakers returns without scanning
CachedStakers == IF ViewKV.hasStakers THEN ViewKV.stakers ELSE <<>>

\* mutant: the forward scan lists the user of every event, repeats included
ScannedStakers_PerEvent(end_block_number) ==
    {[i \in 1..(IF end_block_number > ScanStart
                THEN end_block_number - ScanStart ELSE 0) |->
        chain[ScanStart + i].user]}

\* the list a forward scan stores, for each order the set may be listed in
ScannedStakers(end_block_number) ==
    Orders(get_staker_addresses_from_events(ScanStart + 1, end_block_number))

\* mutant: the forward scan stores the staker list without the block number
ScannedKV_StakersOnly(end_block_number, stakers) ==
    [hasBlock |-> FALSE, block |-> 0, hasStakers |-> TRUE, stakers |-> stakers]

\* the checkpoint rows after a forward scan
ScannedKV(end_block_number, stakers) ==
    [hasBlock |-> TRUE, block |-> end_block_number,
     hasStakers |-> TRUE, stakers |-> stakers]

\* -------------------------------------------------- distribution rounds
Returned(op, year, month, ret, alert, queries, value) ==
    [op |-> op, year |-> year, month |-> month, ret |-> ret,
     alert |-> alert, queries |-> queries, value |-> value,
     error |-> "none", raised |-> "none"]

\* the call ends with an exception: error is what went wrong, alert whether
\* messenger.send_message was called first, raised what reaches the caller
Raised(op, year, month, alert, queries, value, error, raised) ==
    [op |-> op, year |-> year, month |-> month, ret |-> "raise",
     alert |-> alert, queries |-> queries, value |-> value,
     error |-> error, raised |-> raised]

\* what reaches the caller of an except clause that calls send_message and
\* then re-raises: send_message raises an error of its own when it fails
Reraised(error) == {error, "send_message"}

\* the NULL of the table's nullable tx_hash column (transfers count from 1)
NoTxHash == 0

\* mutant: the rows are added without the id of their round
NewRewards_Orphans(rewardList, round_id) ==
    LET base == FreshId(rewards) - 1 IN
    {[id |-> base + i,
      user_address |-> rewardList[i].user_address,
      percentage |-> rewardList[i].percentage,
      amount_wei |-> AmountWei(rewardList[i].percentage),
      state |-> "unsent",
      tx_hash |-> NoTxHash,
      distribution_round_id |-> 0] :
        i \in DOMAIN rewardList}

\* the RewardDistribution rows added for the rewards, ids in list order
NewRewards(rewardList, round_id) ==
    LET base == FreshId(rewards) - 1 IN
    {[id |-> base + i,
      user_address |-> rewardList[i].user_address,
      percentage |-> rewardList[i].percentage,
      amount_wei |-> AmountWei(rewardList[i].percentage),
      state |-> "unsent",
      tx_hash |-> NoTxHash,
      distribution_round_id |-> round_id] :
        i \in {j \in DOMAIN rewardList :
                 AmountWei(rewardList[j].percentage) >= min_reward_amount}}

\* the list figure_out_rewards_for_month returns: amount_wei filled in
WithAmounts(rewardList) ==
    [i \in DOMAIN rewardList |->
        [rewardList[i] EXCEPT !.amount_wei = AmountWei(rewardList[i].percentage)]]

\* the call raises: the alert is sent, nothing is committed or rolled back
FigureRaises(year, month, sess, lsb, queries, error) ==
    /\ session' = sess
    /\ last_scanned_block_number' = lsb
    /\ \E raised \in Reraised(error) :
         outcome' = Raised("figure", year, month, TRUE, queries, <<>>, error, raised)
    /\ UNCHANGED <<rounds, rewards, kv>>

\* mutant: a total stake of zero counts as "No rewards to distribute"
FigureRewards_ZeroIsEmpty(year, month, round_id, sess, lsb, stakers, queries, fault) ==
    IF stakers # <<>> /\ fault = "staked"
    THEN FigureRaises(year, month, sess, lsb, queries + 1, "staked")
    ELSE LET rewardList == IF RewardsDivideByZero(stakers, lsb) THEN <<>>
                           ELSE get_rewards_at_block(stakers, lsb)
             q == queries + RewardQueries(stakers)
         IN  IF rewardList = <<>>
             THEN /\ session' = sess
                  /\ last_scanned_block_number' = lsb
                  /\ outcome' = Returned("figure", year, month, "None", FALSE, q, <<>>)
                  /\ UNCHANGED <<rounds, rewards, kv>>
             ELSE /\ rounds' = rounds \cup sess.rounds
                  /\ kv' = IF sess.kvWritten THEN sess.kv ELSE kv
                  /\ rewards' = rewards \cup NewRewards(rewardList, round_id)
                  /\ session' = NoSession
                  /\ last_scanned_block_number' = lsb
                  /\ outcome' = Returned("figure", year, month, "rewards", FALSE, q,
                                         WithAmounts(rewardList))

\* the rest of the call once the staker list is known
FigureRewards(year, month, round_id, sess, lsb, stakers, queries, fault) ==
    IF stakers # <<>> /\ fault = "staked"
    THEN FigureRaises(year, month, sess, lsb, queries + 1, "staked")
    ELSE IF RewardsDivideByZero(stakers, lsb)
    THEN FigureRaises(year, month, sess, lsb, queries + 2, "zero_division")
    ELSE LET rewardList == get_rewards_at_block(stakers, lsb)
             q == queries + RewardQueries(stakers)
         IN  IF rewardList = <<>>
             THEN \* "No rewards to distribute": returns without a commit
                  /\ session' = sess
                  /\ last_scanned_block_number' = lsb
                  /\ outcome' = Returned("figure", year, month, "None", FALSE, q, <<>>)
                  /\ UNCHANGED <<rounds, rewards, kv>>
             ELSE \* db_session.commit(): everything pending becomes durable
                  /\ rounds' = rounds \cup sess.rounds
                  /\ kv' = IF sess.kvWritten THEN sess.kv ELSE kv
                  /\ rewards' = rewards \cup NewRewards(rewardList, round_id)
                  /\ session' = NoSession
                  /\ last_scanned_block_number' = lsb
                  /\ outcome' = Returned("figure", year, month, "rewards", FALSE, q,
                                         WithAmounts(rewardList))

\* get_stakers(end_block_number) and what follows it
FigureScan(year, month, round_id, sess, end_block_number, fault) ==
    IF UsesCache(end_block_number)
    THEN FigureRewards(year, month, round_id, sess, ScanStart, CachedStakers, 1,
                       fault)
    ELSE IF fault = "events"
    THEN FigureRaises(year, month, sess, ScanStart, 2, "events")
    ELSE \E stakers \in ScannedStakers(end_block_number) :
            FigureRewards(year, month, round_id,
                          [sess EXCEPT !.kvWritten = TRUE,
                                       !.kv = ScannedKV(end_block_number, stakers)],
                          end_block_number, stakers, 2, fault)

\* whether the call goes on after its look at the calendar and at the rounds
MayCreateRound(year, month) ==
    /\ has_month_passed(get_last_day_of_month(year, month))
    /\ get_distribution_round(year, month) = {}

figure_out_rewards_for_month(year, month) ==
    /\ pc = "idle"
    /\ UNCHANGED <<peer, now, chain, transfers, pc, run>>
    /\ IF ~MayCreateRound(year, month)
       THEN /\ outcome' = Returned("figure", year, month, "None", FALSE, 0, <<>>)
            /\ UNCHANGED <<rounds, rewards, kv, session,
                           last_scanned_block_number>>
       ELSE /\ \E fault \in Faults :
                 LET round == [id |-> FreshId(ViewRounds \cup peer.rounds), year |-> year,
                               month |-> month]
                     sess == [session EXCEPT !.rounds = @ \cup {round}]
                 IN  IF fault = "closest_block"
                     THEN FigureRaises(year, month, sess,
                                       last_scanned_block_number, 1,
                                       "closest_block")
                     ELSE \E closest \in
                              get_closest_block(get_last_day_of_month(year, month)) :
                            FigureScan(year, month, round.id, sess, closest, fault)

\* ------------------------------------------------------ the distributor
\* mutant: writing the state also clears the amount of the row
WithState_ClearsAmount(id, state) ==
    {IF r.id = id THEN [r EXCEPT !.state = state, !.amount_wei = 0] ELSE r :
        r \in rewards}

WithState(id, state) ==
    {IF r.id = id THEN [r EXCEPT !.state = state] ELSE r : r \in rewards}

RewardById(id) == CHOOSE r \in rewards : r.id = id

RewardsIn(state) == {r \in rewards : r.state = state}

\* mutant: the look for rows in "sending" finds none
sending_rewards_None == {}

\* lines 295-303: the rows the call finds in state "sending"
sending_rewards == RewardsIn("sending")

\* the call ends: normally (ret "None") or with an exception (ret "raise");
\* value lists the rows the call had fetched as unsent
DistributeEnds(ret, alert) ==
    /\ pc' = "idle"
    /\ run' = NoRun
    /\ outcome' = Returned("distribute", 0, 0, ret, alert, 0, run.queue)

\* the call ends with an exception, after send_message (lines 304-310 and
\* 361-367) or, outside the try block, without it
DistributeRaises(error, alert) ==
    /\ pc' = "idle"
    /\ run' = NoRun
    /\ \E raised \in (IF alert THEN Reraised(error) ELSE {error}) :
         outcome' = Raised("distribute", 0, 0, alert, 0, run.queue, error, raised)

\* mutant: the query also fetches the rows already sent
unsent_rewards_query_WithSent ==
    {r.id : r \in RewardsIn("unsent") \cup RewardsIn("sent")}

\* lines 317-325: the rows the call fetches as unsent
unsent_rewards_query == {r.id : r \in RewardsIn("unsent")}

\* mutant: rows found in "sending" are put back to "unsent" and the run starts
distribute_rewards_Retries ==
    /\ pc = "idle"
    /\ UNCHANGED <<peer, now, chain, transfers, rounds, kv, session,
                   last_scanned_block_number>>
    /\ rewards' = {IF r.state = "sending" THEN [r EXCEPT !.state = "unsent"]
                   ELSE r : r \in rewards}
    /\ \E unsent_rewards \in Orders({r.id : r \in {q \in rewards' : q.state = "unsent"}}) :
         IF unsent_rewards = <<>>
         THEN DistributeEnds("None", FALSE)
         ELSE /\ pc' = "sending"
              /\ run' = [queue |-> unsent_rewards, idx |-> 1,
                         nonce |-> Len(transfers), tx_hash |-> <<>>]
              /\ outcome' = NoCall

\* lines 295-326: the look for rows in "sending", the nonce, the unsent rows
distribute_rewards ==
    /\ pc = "idle"
    /\ UNCHANGED <<peer, now, chain, transfers, rounds, rewards, kv, session,
                   last_scanned_block_number>>
    /\ IF sending_rewards # {}
       THEN DistributeRaises("sending_in_progress", TRUE)
       ELSE \/ \* lines 313-315: get_transaction_count fails, outside the try
               DistributeRaises("get_transaction_count", FALSE)
            \/ \* lines 316-325: the query for the unsent rows fails, outside the try
               DistributeRaises("unsent_query", FALSE)
            \/ \E unsent_rewards \in Orders(unsent_rewards_query) :
                 IF unsent_rewards = <<>>
                 THEN DistributeEnds("None", FALSE)
                 ELSE /\ pc' = "sending"
                      /\ run' = [queue |-> unsent_rewards, idx |-> 1,
                                 nonce |-> Len(transfers), tx_hash |-> <<>>]
                      /\ outcome' = NoCall

\* mutant: the state "sending" is not written before the transfer
MarkSending_NotWritten ==
    /\ pc = "sending"
    /\ pc' = "transact"
    /\ outcome' = NoCall
    /\ UNCHANGED <<peer, now, chain, transfers, rounds, rewards, kv, session,
                   last_scanned_block_number, run>>

\* mutant: the row is written as "sent" before its transfer
MarkSending_Skips ==
    /\ pc = "sending"
    /\ rewards' = WithState(run.queue[run.idx], "sent")
    /\ pc' = "transact"
    /\ outcome' = NoCall
    /\ UNCHANGED <<peer, now, chain, transfers, rounds, kv, session,
                   last_scanned_block_number, run>>

\* mutant: every unsent row is written as "sending", not the row at hand
MarkSending_AllUnsent ==
    /\ pc = "sending"
    /\ rewards' = {IF r.state = "unsent" THEN [r EXCEPT !.state = "sending"]
                   ELSE r : r \in rewards}
    /\ pc' = "transact"
    /\ outcome' = NoCall
    /\ UNCHANGED <<peer, now, chain, transfers, rounds, kv, session,
                   last_scanned_block_number, run>>

\* lines 329-332: reward.state = RewardState.sending, committed
MarkSending ==
    /\ pc = "sending"
    /\ rewards' = WithState(run.queue[run.idx], "sending")
    /\ pc' = "transact"
    /\ outcome' = NoCall
    /\ UNCHANGED <<peer, now, chain, transfers, rounds, kv, session,
                   last_scanned_block_number, run>>

\* mutant: a submission that fails is skipped and the run goes on
Transact_Swallows ==
    /\ pc = "transact"
    /\ UNCHANGED <<peer, now, chain, rounds, rewards, kv, session,
                   last_scanned_block_number>>
    /\ LET reward == RewardById(run.queue[run.idx]) IN
       \/ /\ transfers' = Append(transfers,
                                [reward_id |-> reward.id,
                                 to |-> reward.user_address,
                                 amount |-> reward.amount_wei,
                                 nonce |-> run.nonce,
                                 status |-> "unknown"])
          /\ run' = [run EXCEPT !.nonce = @ + 1,
                                !.tx_hash = Append(@, Len(transfers) + 1)]
          /\ pc' = "sent"
          /\ outcome' = NoCall
       \/ /\ IF run.idx < Len(run.queue)
             THEN /\ run' = [run EXCEPT !.idx = @ + 1]
                  /\ pc' = "sending"
                  /\ outcome' = NoCall
             ELSE DistributeEnds("None", FALSE)
          /\ UNCHANGED transfers

\* mutant: the nonce is not incremented after a transfer
Transact_SameNonce ==
    /\ pc = "transact"
    /\ UNCHANGED <<peer, now, chain, rounds, rewards, kv, session,
                   last_scanned_block_number>>
    /\ LET reward == RewardById(run.queue[run.idx]) IN
       \/ /\ transfers' = Append(transfers,
                                [reward_id |-> reward.id,
                                 to |-> reward.user_address,
                                 amount |-> reward.amount_wei,
                                 nonce |-> run.nonce,
                                 status |-> "unknown"])
          /\ run' = [run EXCEPT !.tx_hash = Append(@, Len(transfers) + 1)]
          /\ pc' = "sent"
          /\ outcome' = NoCall
       \/ /\ DistributeRaises("transact", TRUE)
          /\ UNCHANGED transfers

\* lines 335-346: transfer(user_address, amount_wei).transact(...), nonce += 1
Transact ==
    /\ pc = "transact"
    /\ UNCHANGED <<peer, now, chain, rounds, rewards, kv, session,
                   last_scanned_block_number>>
    /\ LET reward == RewardById(run.queue[run.idx]) IN
       \/ /\ transfers' = Append(transfers,
                                [reward_id |-> reward.id,
                                 to |-> reward.user_address,
                                 amount |-> reward.amount_wei,
                                 nonce |-> run.nonce,
                                 status |-> "unknown"])
          /\ run' = [run EXCEPT !.nonce = @ + 1,
                                !.tx_hash = Append(@, Len(transfers) + 1)]
          /\ pc' = "sent"
          /\ outcome' = NoCall
       \/ \* the submission fails: lines 361-367
          /\ DistributeRaises("transact", TRUE)
          /\ UNCHANGED transfers

\* mutant: the state "sent" is not written after the transfer
MarkSent_NotWritten ==
    /\ pc = "sent"
    /\ IF run.idx < Len(run.queue)
       THEN /\ run' = [run EXCEPT !.idx = @ + 1]
            /\ pc' = "sending"
       ELSE /\ run' = [run EXCEPT !.idx = 1]
            /\ pc' = "receipt"
    /\ outcome' = NoCall
    /\ UNCHANGED <<peer, now, chain, transfers, rounds, rewards, kv, session,
                   last_scanned_block_number>>

\* mutant: the row is written as "confirmed" right after its transfer
MarkSent_Confirms ==
    /\ pc = "sent"
    /\ rewards' = WithState(run.queue[run.idx], "confirmed")
    /\ IF run.idx < Len(run.queue)
       THEN /\ run' = [run EXCEPT !.idx = @ + 1]
            /\ pc' = "sending"
       ELSE /\ run' = [run EXCEPT !.idx = 1]
            /\ pc' = "receipt"
    /\ outcome' = NoCall
    /\ UNCHANGED <<peer, now, chain, transfers, rounds, kv, session,
                   last_scanned_block_number>>

\* lines 347-349: reward.state = RewardState.sent, committed
MarkSent ==
    /\ pc = "sent"
    /\ rewards' = WithState(run.queue[run.idx], "sent")
    /\ IF run.idx < Len(run.queue)
       THEN /\ run' = [run EXCEPT !.idx = @ + 1]
            /\ pc' = "sending"
       ELSE /\ run' = [run EXCEPT !.idx = 1]
            /\ pc' = "receipt"
    /\ outcome' = NoCall
    /\ UNCHANGED <<peer, now, chain, transfers, rounds, kv, session,
                   last_scanned_block_number>>

\* mutant: a failed receipt puts the row back to "unsent"
WaitForReceipt_Reverts ==
    /\ pc = "receipt"
    /\ UNCHANGED <<peer, now, chain, rounds, kv, session, last_scanned_block_number>>
    /\ transfers' = [transfers EXCEPT ![run.tx_hash[run.idx]].status = "failed"]
    /\ rewards' = WithState(run.queue[run.idx], "unsent")
    /\ DistributeRaises("receipt", TRUE)

\* lines 352-360: wait_for_transaction_receipt and the status it reports
WaitForReceipt ==
    /\ pc = "receipt"
    /\ UNCHANGED <<peer, now, chain, rounds, kv, session, last_scanned_block_number>>
    /\ \E status \in {0, 1} :
         /\ transfers' = [transfers EXCEPT ![run.tx_hash[run.idx]].status =
                              IF status = 1 THEN "success" ELSE "failed"]
         /\ IF status = 0
            THEN \* raise Exception("Transaction failed")
                 /\ DistributeRaises("receipt", TRUE)
                 /\ UNCHANGED rewards
            ELSE IF "confirmed" \notin RewardState
            THEN \* RewardState.confirmed is no member of the enum: AttributeError
                 /\ DistributeRaises("attribute", TRUE)
                 /\ UNCHANGED rewards
            ELSE /\ rewards' = WithState(run.queue[run.idx], "confirmed")
                 /\ IF run.idx < Len(run.queue)
                    THEN /\ run' = [run EXCEPT !.idx = @ + 1]
                         /\ pc' = "receipt"
                         /\ outcome' = NoCall
                    ELSE DistributeEnds("None", FALSE)

\* ---------------------------------------------------------- environment
Tick ==
    /\ now < MaxNow
    /\ now' = now + 1
    /\ outcome' = NoCall
    /\ UNCHANGED <<peer, chain, transfers, rounds, rewards, kv, session,
                   last_scanned_block_number, pc, run>>

\* a staker's stake(amount) transaction, mined in a block of its own
Stake(user, amount) ==
    /\ Height < MaxBlock
    /\ chain' = Append(chain, [timestamp |-> now, user |-> user, amount |-> amount])
    /\ outcome' = NoCall
    /\ UNCHANGED <<peer, now, transfers, rounds, rewards, kv, session,
                   last_scanned_block_number, pc, run>>

\* the process dies and is started again: both sessions and the object are new
Crash ==
    /\ session' = NoSession
    /\ last_scanned_block_number' = GenesisBlock
    /\ pc' = "idle"
    /\ run' = NoRun
    /\ outcome' = NoCall
    /\ UNCHANGED <<peer, now, chain, transfers, rounds, rewards, kv>>

Next ==
    \/ Tick
    \/ \E stake \in Stakes : Stake(stake[1], stake[2])
    \/ Crash
    \/ \E month \in 1..MaxMonth : figure_out_rewards_for_month(FirstYear, month)
    \/ distribute_rewards
    \/ MarkSending
    \/ Transact
    \/ MarkSent
    \/ WaitForReceipt

Spec == Init /\ [][Next]_vars

\* the ledger and the monthly calculation, without the distributor
NextCalculator ==
    \/ Tick
    \/ \E stake \in Stakes : Stake(stake[1], stake[2])
    \/ \E month \in 1..MaxMonth : figure_out_rewards_for_month(FirstYear, month)

SpecCalculator == Init /\ [][NextCalculator]_vars

\* a staker takes the whole stake out again, in a block of its own
Unstake(user) ==
    /\ Height < MaxBlock
    /\ staked(user, Height) > 0
    /\ chain' = Append(chain, [timestamp |-> now, user |-> user,
                               amount |-> 0 - staked(user, Height)])
    /\ outcome' = NoCall
    /\ UNCHANGED <<peer, now, transfers, rounds, rewards, kv, session,
                   last_scanned_block_number, pc, run>>

\* the monthly calculation over a ledger whose stakes come and go
NextWithUnstake ==
    \/ Tick
    \/ \E stake \in Stakes : Stake(stake[1], stake[2])
    \/ \E user \in Addresses : Unstake(user)
    \/ \E month \in 1..MaxMonth : figure_out_rewards_for_month(FirstYear, month)

SpecWithUnstake == Init /\ [][NextWithUnstake]_vars

\* ------------------------------------------------- a concurrent invocation
\* A second run of the script calls figure_out_rewards_for_month while the
\* first one may be inside its own call.  It has a db_session of its own,
\* which reads the committed rows and its own pending writes, and a new
\* StakingRewarder, whose last_scanned_block_number is the constructor's.

\* the look-up of the second run's db_session
PeerRound(year, month) ==
    {r \in rounds \cup peer.rounds : r.year = year /\ r.month = month}

\* the second run passes the calendar check and the existence check, then
\* adds and flushes its round
PeerChecks(year, month) ==
    /\ peer.at = "idle"
    /\ has_month_passed(get_last_day_of_month(year, month))
    /\ PeerRound(year, month) = {}
    /\ peer' = [at |-> "flushed", year |-> year, month |-> month,
                rounds |-> {[id |-> FreshId(ViewRounds \cup peer.rounds),
                             year |-> year, month |-> month]}]
    /\ outcome' = NoCall
    /\ UNCHANGED <<now, chain, transfers, rounds, rewards, kv, session,
                   last_scanned_block_number, pc, run>>

\* the block the second run's get_stakers scans from
PeerScanStart == IF kv.hasBlock THEN kv.block ELSE GenesisBlock

\* the rest of the second run's call once its staker list is known: with
\* no rewards, or a total of zero, the run ends and its pending rows are
\* lost; else db_session.commit() makes them durable
PeerRewards(lsb, stakers, checkpoint) ==
    /\ peer' = NoPeer
    /\ outcome' = NoCall
    /\ IF stakers = <<>> \/ RewardsDivideByZero(stakers, lsb)
       THEN UNCHANGED <<rounds, rewards, kv>>
       ELSE /\ rounds' = rounds \cup peer.rounds
            /\ kv' = checkpoint
            /\ rewards' = rewards \cup
                   NewRewards(get_rewards_at_block(stakers, lsb),
                              (CHOOSE r \in peer.rounds : TRUE).id)

\* the second run goes from its flush to the end of its call.  A forward
\* scan writes the checkpoint rows, which waits for the first run's
\* transaction if that one holds pending writes of the same rows.
PeerFinishes ==
    /\ peer.at = "flushed"
    /\ UNCHANGED <<now, chain, transfers, session, last_scanned_block_number,
                   pc, run>>
    /\ \E closest \in get_closest_block(get_last_day_of_month(peer.year,
                                                               peer.month)) :
         IF closest < PeerScanStart
         THEN PeerRewards(PeerScanStart,
                          IF kv.hasStakers THEN kv.stakers ELSE <<>>, kv)
         ELSE /\ ~session.kvWritten
              /\ \E stakers \in Orders(get_staker_addresses_from_events(
                                        PeerScanStart + 1, closest)) :
                    PeerRewards(closest, stakers, ScannedKV(closest, stakers))

\* two runs of the script's first call, over a ledger that grows
NextConcurrent ==
    \/ Tick
    \/ \E stake \in Stakes : Stake(stake[1], stake[2])
    \/ \E month \in 1..MaxMonth : figure_out_rewards_for_month(FirstYear, month)
    \/ \E month \in 1..MaxMonth : PeerChecks(FirstYear, month)
    \/ PeerFinishes

SpecConcurrent == Init /\ [][NextConcurrent]_vars

\* one run of the script distributes while another one figures out rewards
NextInterleaved ==
    \/ Tick
    \/ \E stake \in Stakes : Stake(stake[1], stake[2])
    \/ \E month \in 1..MaxMonth : PeerChecks(FirstYear, month)
    \/ PeerFinishes
    \/ distribute_rewards
    \/ MarkSending
    \/ Transact
    \/ MarkSent
    \/ WaitForReceipt

SpecInterleaved == Init /\ [][NextInterleaved]_vars

\* the script keeps being run: a call of distribute_rewards that can be made
\* is made, and a run under way takes its next step
Fairness ==
    /\ WF_vars(distribute_rewards)
    /\ WF_vars(MarkSending)
    /\ WF_vars(Transact)
    /\ WF_vars(MarkSent)
    /\ WF_vars(WaitForReceipt)

SpecFair == Init /\ [][Next]_vars /\ Fairness

\* ================================================================ claims
TransfersFor(id) == {i \in DOMAIN transfers : transfers[i].reward_id = id}

RoundRecords(round_id) == {r \in rewards : r.distribution_round_id = round_id}

\* C1: whatever runs, submission failures and crashes happened, no reward
\* distribution row has had more than one transfer submitted for it.
C1_AtMostOneTransfer ==
    \A r \in rewards : Cardinality(TransfersFor(r.id)) <= 1

\* a run crashed after the transfer and before "sent" was committed, and the
\* next run has refused to start
C1_Witness ==
    /\ outcome.op = "distribute" /\ outcome.ret = "raise"
    /\ \E r \in rewards : r.state = "sending" /\ TransfersFor(r.id) # {}
    /\ RewardsIn("unsent") # {}

\* C2: the committed rounds hold at most one round per (year, month).
C2_OneRoundPerMonth ==
    \A r1, r2 \in rounds :
        (r1.year = r2.year /\ r1.month = r2.month) => r1 = r2

\* both months have their round, after calls that failed or found no stakers
C2_Witness ==
    /\ Cardinality(rounds) = MaxMonth
    /\ \E r \in rounds : RoundRecords(r.id) = {}
    /\ outcome.op = "figure" /\ outcome.ret = "None"
    /\ get_distribution_round(outcome.year, outcome.month) # {}

\* C3: a call of figure_out_rewards_for_month(y, m) that directly follows a
\* call for the same elapsed month returns None and leaves exactly one round
\* for (y, m), adding, changing or removing no round and no reward row.
C3_SecondCallIsNoOp ==
    [][(/\ outcome.op = "figure"
        /\ outcome'.op = "figure"
        /\ outcome'.year = outcome.year /\ outcome'.month = outcome.month
        /\ has_month_passed(get_last_day_of_month(outcome.year, outcome.month)))
       => (/\ outcome'.ret = "None"
           /\ rounds' = rounds /\ rewards' = rewards
           /\ session'.rounds = session.rounds
           /\ Cardinality(get_distribution_round(outcome.year, outcome.month)) = 1)
      ]_vars

\* a call has returned None for a month whose round and rewards exist
C3_Witness ==
    /\ outcome.op = "figure" /\ outcome.ret = "None"
    /\ \E r \in rounds :
         /\ r.year = outcome.year /\ r.month = outcome.month
         /\ RoundRecords(r.id) # {}

\* C4: called before the last instant of the month, the call returns None,
\* creates no round and no reward row, writes no checkpoint, reads nothing
\* from the ledger and sends no alert.
C4_BeforeMonthEndNoOp ==
    [][(/\ outcome'.op = "figure"
        /\ now < get_last_day_of_month(outcome'.year, outcome'.month))
       => (/\ outcome'.ret = "None" /\ ~outcome'.alert /\ outcome'.queries = 0
           /\ UNCHANGED <<rounds, rewards, kv, session, chain, transfers,
                          last_scanned_block_number>>)
      ]_vars

\* the call was made with stakers on the ledger and the month not over
C4_Witness ==
    /\ outcome.op = "figure" /\ outcome.ret = "None"
    /\ now < get_last_day_of_month(outcome.year, outcome.month)
    /\ Height = MaxBlock
    /\ rounds = {} /\ session.rounds = {}

\* C5: a call of distribute_rewards that finds a row in "sending" alerts,
\* raises, submits no transfer and changes no row.
C5_SendingAtStartAborts ==
    [][(/\ pc = "idle"
        /\ RewardsIn("sending") # {}
        /\ (pc' # "idle" \/ outcome'.op = "distribute"))
       => (/\ outcome'.op = "distribute" /\ outcome'.ret = "raise"
           /\ outcome'.alert
           /\ pc' = "idle"
           /\ transfers' = transfers /\ rewards' = rewards)
      ]_vars

\* the call has refused to run although unsent rows were waiting
C5_Witness ==
    /\ outcome.op = "distribute" /\ outcome.ret = "raise" /\ outcome.alert
    /\ outcome.value = <<>>
    /\ RewardsIn("sending") # {}
    /\ RewardsIn("unsent") # {}
    /\ \A r \in RewardsIn("sending") : TransfersFor(r.id) = {}


\* a Decimal in steps of 10^-(DecimalPrec + 1), what lies beyond cut off
Steps(d) == IntOf(<<d[1], d[2] - (DecimalPrec + 1)>>)

\* the percentages of the rows add up to 1, within the rounding of the
\* quotients: half a last digit for each row, and the step cut off
PercentagesSumToOne(rows) ==
    LET sum == SumOver(rows, [r \in rows |-> Steps(r.percentage)])
        one == Pow10(DecimalPrec + 1)
        epsilon == 6 * Cardinality(rows)
    IN  one - epsilon <= sum /\ sum <= one + epsilon

AmountSum(rows) == SumOver(rows, [r \in rows |-> r.amount_wei])

\* C6: in every round that has reward rows (so the total stake was
\* positive), the percentages of the round's rows sum to 1.
C6_PercentagesSumToOne ==
    \A round \in rounds :
        RoundRecords(round.id) # {} => PercentagesSumToOne(RoundRecords(round.id))

\* C7: get_rewards_at_block returns one Reward per given address, in the
\* order given, in state unsent, with percentage = staked / totalAmountStaked
\* at the block (the Decimal quotient: 0 for no stake, 1 for the whole stake,
\* the right tenth up to the rounding); stakes of 10,000 and 70,000 tokens
\* give 0.125 and 0.875, and the pool of 250,000 tokens then gives 31,250 and
\* 218,750 tokens.
C7_RewardsAtBlock ==
    \A b \in 1..Height : \A S \in SUBSET Addresses : \A addrs \in Orders(S) :
        LET rs == get_rewards_at_block(addrs, b)
            total == totalAmountStaked(b)
        IN  /\ Len(rs) = Len(addrs)
            /\ \A i \in DOMAIN addrs :
                 LET stake == staked(addrs[i], b)
                     tenths == Steps(rs[i].percentage) \div Pow10(DecimalPrec)
                 IN  /\ rs[i].user_address = addrs[i]
                     /\ rs[i].state = "unsent"
                     /\ rs[i].percentage = DecimalDivide(stake, total)
                     /\ Digits(rs[i].percentage[1]) <= DecimalPrec
                     /\ rs[i].percentage = <<0, 0>> <=> stake = 0
                     /\ rs[i].percentage = <<1, 0>> <=> stake = total
                     /\ (10 * stake) \div total <= tenths
                     /\ tenths <= (10 * stake) \div total + 1
            /\ (/\ addrs = <<"alice", "bob">>
                /\ staked("alice", b) = 10000 \div TokensPerUnit
                /\ staked("bob", b) = 70000 \div TokensPerUnit)
               => (/\ total = 80000 \div TokensPerUnit
                   /\ rs[1].percentage = <<125, 3>>
                   /\ rs[2].percentage = <<875, 3>>
                   /\ total_reward_to_distribute * TokensPerUnit = 250000
                   /\ AmountWei(rs[1].percentage) * TokensPerUnit = 31250
                   /\ AmountWei(rs[2].percentage) * TokensPerUnit = 218750)

\* the call has returned the rewards of the example
C7_Witness ==
    /\ outcome.op = "figure" /\ outcome.ret = "rewards"
    /\ staked("alice", Height) = 10000 \div TokensPerUnit
    /\ staked("bob", Height) = 70000 \div TokensPerUnit
    /\ outcome.value
         = <<[user_address |-> "alice", percentage |-> <<125, 3>>,
              state |-> "unsent", amount_wei |-> 25],
             [user_address |-> "bob", percentage |-> <<875, 3>>,
              state |-> "unsent", amount_wei |-> 175]>>

\* C8: every reward row's amount is floor(pool * percentage), and the amounts
\* of a round's rows sum to at most the pool, a quarter of the monthly revenue.
C8_AmountIsFloor ==
    /\ total_reward_to_distribute * 4 = monthly_revenue
    /\ \A r \in rewards :
         r.amount_wei
             = IntOf(<<total_reward_to_distribute * r.percentage[1], r.percentage[2]>>)
    /\ \A round \in rounds :
         AmountSum(RoundRecords(round.id)) <= total_reward_to_distribute

\* C9: in every round that has reward rows, the amounts sum to the pool up
\* to the dust: pool - (number of rows) < sum <= pool.
C9_PoolFullyDistributed ==
    \A round \in rounds :
        LET rows == RoundRecords(round.id) IN
        rows # {} =>
            /\ total_reward_to_distribute - Cardinality(rows) < AmountSum(rows)
            /\ AmountSum(rows) <= total_reward_to_distribute

\* C10: when a run ends in which every row fetched as unsent had its
\* transfer submitted and its receipt report success, the call has returned
\* normally, every such row is confirmed, and exactly one transfer was
\* submitted for it, to its address and for its amount.
C10_SuccessfulRunConfirms ==
    (/\ outcome.op = "distribute"
     /\ outcome.value # <<>>
     /\ \A id \in Range(outcome.value) :
          /\ TransfersFor(id) # {}
          /\ \A i \in TransfersFor(id) : transfers[i].status = "success")
    => (/\ outcome.ret = "None"
        /\ \A id \in Range(outcome.value) :
             /\ RewardById(id).state = "confirmed"
             /\ Cardinality(TransfersFor(id)) = 1
             /\ \A i \in TransfersFor(id) :
                  /\ transfers[i].to = RewardById(id).user_address
                  /\ transfers[i].amount = RewardById(id).amount_wei)

\* the faults of the ledger and the database that strike a call of
\* distribute_rewards before it has looked at any unsent row
StartFaults == {"get_transaction_count", "unsent_query"}

\* C11: a call of distribute_rewards made when no row is unsent and none is
\* in "sending" (and whose ledger and database reads succeed) submits no
\* transfer, sends no alert, changes no row and returns normally.
C11_NothingToSendIsNoOp ==
    [][(/\ pc = "idle"
        /\ RewardsIn("unsent") = {} /\ RewardsIn("sending") = {}
        /\ (pc' # "idle" \/ outcome'.op = "distribute")
        /\ outcome'.error \notin StartFaults)
       => (/\ outcome'.op = "distribute" /\ outcome'.ret = "None"
           /\ ~outcome'.alert
           /\ pc' = "idle"
           /\ transfers' = transfers /\ rewards' = rewards)
      ]_vars

\* the call has returned normally with every row sent in an earlier run
C11_Witness ==
    /\ outcome.op = "distribute" /\ outcome.ret = "None" /\ ~outcome.alert
    /\ rewards # {} /\ RewardsIn("sent") = rewards
    /\ \A r \in rewards : Cardinality(TransfersFor(r.id)) = 1

\* the addresses of a list of rewards, in the order of the list
AddressesOf(rewardList) == [i \in DOMAIN rewardList |-> rewardList[i].user_address]

\* the snapshot block of the month lies before the stored checkpoint
BeforeCheckpoint(year, month) ==
    /\ ViewKV.hasBlock
    /\ \A closest \in get_closest_block(get_last_day_of_month(year, month)) :
         closest < ViewKV.block

\* C12: get_stakers(b) with b below the stored last-scanned block returns the
\* cached staker list as it is, asks the ledger for no events, and leaves
\* both checkpoint keys as they were.
C12_CacheReused ==
    [][(/\ outcome'.op = "figure"
        /\ MayCreateRound(outcome'.year, outcome'.month)
        /\ BeforeCheckpoint(outcome'.year, outcome'.month)
        /\ outcome'.error # "closest_block")
       => (/\ ViewKV' = ViewKV
           /\ outcome'.ret # "raise"
                => outcome'.queries = 1 + RewardQueries(CachedStakers)
           /\ outcome'.ret = "rewards" => AddressesOf(outcome'.value) = CachedStakers
           /\ outcome'.ret = "None" => CachedStakers = <<>>)
      ]_vars

\* a call has computed rewards for a month whose snapshot block lies before
\* the checkpoint
C12_Witness ==
    /\ outcome.op = "figure" /\ outcome.ret = "rewards"
    /\ kv.hasBlock /\ session = NoSession
    /\ \A closest \in
           get_closest_block(get_last_day_of_month(outcome.year, outcome.month)) :
         closest < kv.block
    /\ AddressesOf(outcome.value) = kv.stakers

\* the transitions the state of a reward row may make
TransitionTable ==
    {<<"unsent", "sending">>, <<"sending", "sent">>, <<"sent", "confirmed">>}

\* C13: in every step every reward row stays, and its state either stays or
\* changes by unsent -> sending, sending -> sent or sent -> confirmed: no
\* step back, no state skipped, and a confirmed row is left as it is.
C13_StateTransitions ==
    [][\A r \in rewards :
         /\ \E r2 \in rewards' : r2.id = r.id
         /\ \A r2 \in rewards' :
              r2.id = r.id
                => /\ r2.state = r.state \/ <<r.state, r2.state>> \in TransitionTable
                   /\ r.state = "confirmed" => r2 = r
      ]_vars

\* rows have gone through the transitions: one is sent, one is in "sending"
C13_Witness ==
    /\ RewardsIn("sent") # {}
    /\ RewardsIn("sending") # {}
    /\ \A r \in RewardsIn("sent") : TransfersFor(r.id) # {}

\* the rows of the running call that it has not reached yet
NotReached == {run.queue[j] : j \in {k \in DOMAIN run.queue : k > run.idx}}

\* C14: when the submission of a row's transfer fails, the call ends at once:
\* send_message is called, the call raises, the row stays in "sending", the
\* rows not yet reached stay unsent, and no transfer is submitted.
C14_SubmissionFailureAborts ==
    [][(/\ pc = "transact"
        /\ transfers' = transfers
        /\ (pc' \notin {"transact", "idle"} \/ outcome'.op = "distribute"))
       => (/\ pc' = "idle"
           /\ outcome'.op = "distribute" /\ outcome'.ret = "raise"
           /\ outcome'.alert /\ outcome'.error = "transact"
           /\ rewards' = rewards
           /\ RewardById(run.queue[run.idx]).state = "sending"
           /\ \A id \in NotReached :
                RewardById(id).state = "unsent" /\ TransfersFor(id) = {})
      ]_vars

\* a submission has failed with one row sent before it and one not reached
C14_Witness ==
    /\ outcome.op = "distribute" /\ outcome.error = "transact"
    /\ Len(outcome.value) >= 2
    /\ RewardById(outcome.value[1]).state = "sending"
    /\ TransfersFor(outcome.value[1]) = {}
    /\ RewardById(outcome.value[2]).state = "unsent"

\* C15: when the receipt of a sent row reports status 0, send_message is
\* called, the call raises, and the row stays in "sent".
C15_FailedReceiptStaysSent ==
    [][(/\ pc = "receipt"
        /\ transfers' # transfers
        /\ transfers'[run.tx_hash[run.idx]].status = "failed")
       => (/\ pc' = "idle"
           /\ outcome'.op = "distribute" /\ outcome'.ret = "raise"
           /\ outcome'.alert /\ outcome'.error = "receipt"
           /\ rewards' = rewards
           /\ RewardById(run.queue[run.idx]).state = "sent")
      ]_vars

\* a receipt has reported failure and the row is still sent
C15_Witness ==
    /\ outcome.op = "distribute" /\ outcome.error = "receipt"
    /\ \E i \in DOMAIN transfers :
         /\ transfers[i].status = "failed"
         /\ RewardById(transfers[i].reward_id).state = "sent"

\* C16: when two figure_out_rewards_for_month(y, m) invocations for the same
\* elapsed period run concurrently, whatever the interleaving of their
\* existence checks, round inserts and commits, at most one of them creates
\* a DistributionRound with reward records for (y, m): no two committed
\* rounds with reward records are for the same year and month.
C16_OneCreatorUnderConcurrency ==
    \A r1 \in rounds : \A r2 \in rounds :
        (/\ r1.year = r2.year /\ r1.month = r2.month
         /\ RoundRecords(r1.id) # {} /\ RoundRecords(r2.id) # {})
        => r1.id = r2.id

\* C17: a call for an elapsed month without a round that ends with no
\* rewards returns None and has committed the round of the month.
C17_EmptyRoundCommitted ==
    [][(/\ outcome'.op = "figure"
        /\ MayCreateRound(outcome'.year, outcome'.month)
        /\ outcome'.ret = "None")
       => (\E r \in rounds' :
             r.year = outcome'.year /\ r.month = outcome'.month)
      ]_vars

\* C18: whenever distribute_rewards or figure_out_rewards_for_month has
\* raised an error to its caller, send_message was called before.
C18_ErrorsAreAlerted ==
    outcome.ret = "raise" => outcome.alert

\* C19: the error a call raises to its caller is the error that made it
\* abort, also when send_message fails.
C19_OriginalErrorReachesCaller ==
    outcome.ret = "raise" => outcome.raised = outcome.error

\* C20: at most one reward row is committed in state "sending".
C20_AtMostOneSending ==
    Cardinality(RewardsIn("sending")) <= 1

\* a run has stopped at its second row: one row sent, one in "sending",
\* and rows of another round still unsent
C20_Witness ==
    /\ pc = "idle"
    /\ Cardinality(RewardsIn("sending")) = 1
    /\ RewardsIn("sent") # {}
    /\ RewardsIn("unsent") # {}

\* C21: a row left in "sending" by a run that crashed or failed is moved by
\* no later call: while a row is in "sending" and no run is under way, a step
\* leaves every row as it is (figure_out_rewards_for_month may add rows),
\* submits no transfer, and a call of distribute_rewards alerts and raises
\* without starting a run.
C21_StuckSendingStays ==
    [][(pc = "idle" /\ RewardsIn("sending") # {})
       => (/\ pc' = "idle"
           /\ transfers' = transfers
           /\ rewards \subseteq rewards'
           /\ outcome'.op = "distribute"
                => (/\ rewards' = rewards
                    /\ outcome'.ret = "raise" /\ outcome'.alert
                    /\ outcome'.value = <<>>))
      ]_vars

\* a run crashed with its transfer submitted; a later call has added the
\* rows of another month, and distribute_rewards has refused to run
C21_Witness ==
    /\ outcome.op = "distribute" /\ outcome.error = "sending_in_progress"
    /\ Cardinality(rounds) = 2
    /\ \E r \in RewardsIn("sending") :
         /\ TransfersFor(r.id) # {}
         /\ \E u \in RewardsIn("unsent") :
              u.distribution_round_id # r.distribution_round_id

\* C22: within a run, a transfer is submitted only for a row whose committed
\* state is "sending"; a row is committed as "sent" only after its transfer
\* was submitted, and the committed row then carries the hash of that
\* transfer; a row is marked "sending" only when every row with a transfer
\* is committed as "sent".
C22_EachStepCommitted ==
    [][/\ Len(transfers') > Len(transfers)
            => RewardById(transfers'[Len(transfers')].reward_id).state = "sending"
       /\ \A r \in rewards : \A r2 \in rewards' :
            (r2.id = r.id /\ r2.state # r.state)
              => /\ r2.state = "sent"
                   => /\ TransfersFor(r.id) # {}
                      /\ r2.tx_hash \in TransfersFor(r.id)
                 /\ r2.state = "sending"
                   => \A q \in rewards :
                        TransfersFor(q.id) # {} => q.state \in {"sent", "confirmed"}
      ]_vars

\* some row gets the state in this step
Becomes(state) ==
    \E r \in rewards : \E r2 \in rewards' :
        r2.id = r.id /\ r.state # state /\ r2.state = state

\* C23: within a run, a receipt is waited for and a row is moved to
\* "confirmed" only once a transfer has been submitted for every row fetched
\* as unsent at the start of the run; when a submission has failed, no row
\* of the run is confirmed and no receipt of the run was waited for.
C23_ConfirmAfterAllSubmitted ==
    [][/\ (Becomes("confirmed")
           \/ \E i \in DOMAIN transfers : transfers'[i].status # transfers[i].status)
            => /\ pc = "receipt"
               /\ \A id \in Range(run.queue) : TransfersFor(id) # {}
       /\ outcome'.error = "transact"
            => \A id \in Range(outcome'.value) :
                 /\ RewardById(id)'.state # "confirmed"
                 /\ \A i \in TransfersFor(id) : transfers'[i].status = "unknown"
      ]_vars

\* the run waits for its first receipt with both its rows sent
C23_Witness ==
    /\ pc = "receipt" /\ run.idx = 1
    /\ Len(run.queue) >= 2
    /\ \A id \in Range(run.queue) :
         RewardById(id).state = "sent" /\ Cardinality(TransfersFor(id)) = 1

\* C24: distribute_rewards goes through the unsent rows in ascending order
\* of their ids: the list a starting run has fetched is sorted by id, so of
\* two rows the one with the smaller id is marked "sending" and transferred
\* first, and two runs over the same rows take them in the same order.
C24_AscendingById ==
    [][(pc = "idle" /\ pc' = "sending")
       => \A i \in DOMAIN run'.queue : \A j \in DOMAIN run'.queue :
            i < j => run'.queue[i] < run'.queue[j]
      ]_vars

\* the account's transaction count the running call read when it started
StartNonce == Len(transfers) - Len(run.tx_hash)

\* C25: within a run, the k-th transfer submitted (k = 0, 1, ...) carries the
\* nonce n0 + k, n0 being the account's transaction count read at the start
\* of the run, and the next transfer will carry n0 + (transfers submitted).
C25_NoncesCountUp ==
    /\ \A k \in DOMAIN run.tx_hash :
         transfers[run.tx_hash[k]].nonce = StartNonce + (k - 1)
    /\ pc # "idle" => run.nonce = StartNonce + Len(run.tx_hash)

\* a run that started at a count above zero has submitted two transfers
C25_Witness ==
    /\ Len(run.tx_hash) = 2
    /\ StartNonce > 0
    /\ transfers[run.tx_hash[1]].nonce # transfers[run.tx_hash[2]].nonce

\* the call for the month scans forward, whichever closest block it finds
ScansForward(year, month) ==
    /\ MayCreateRound(year, month)
    /\ \A closest \in get_closest_block(get_last_day_of_month(year, month)) :
         ~UsesCache(closest)

\* C26: a forward scan get_stakers(targetBlock) asks for the stake events of
\* the blocks after the last scanned one up to targetBlock and writes both
\* checkpoint keys together, the block number being targetBlock; the
\* committed keys are both absent or both present, and the committed staker
\* list holds the addresses of a scan that ended at the committed block.
C26_CheckpointWrittenTogether ==
    [][/\ (/\ outcome'.op = "figure"
           /\ ScansForward(outcome'.year, outcome'.month)
           /\ outcome'.error # "closest_block")
            => \E closest \in get_closest_block(
                                get_last_day_of_month(outcome'.year, outcome'.month)) :
                 /\ ViewKV'.hasBlock /\ ViewKV'.hasStakers
                 /\ ViewKV'.block = closest
                 /\ last_scanned_block_number' = closest
                 /\ Range(ViewKV'.stakers)
                      = get_staker_addresses_from_events(ScanStart + 1, closest)
       /\ kv'.hasBlock = kv'.hasStakers
       /\ kv'.hasBlock
            => \E start \in GenesisBlock..kv'.block :
                 Range(kv'.stakers)
                   = get_staker_addresses_from_events(start + 1, kv'.block)
      ]_vars

\* a second forward scan, from the first checkpoint to block 2, is committed
C26_Witness ==
    /\ outcome.op = "figure" /\ outcome.ret = "rewards"
    /\ Cardinality(rounds) = 2
    /\ kv.hasBlock /\ kv.block = 2
    /\ Range(kv.stakers) = get_staker_addresses_from_events(2, 2)
    /\ last_scanned_block_number = 2

\* C27: after a forward scan the stored staker list holds the addresses
\* stored before it and the addresses that staked in the blocks newly
\* scanned: an address once in the committed list is in it ever after.
C27_StakersAccumulate ==
    [][/\ (/\ outcome'.op = "figure"
           /\ ScansForward(outcome'.year, outcome'.month)
           /\ outcome'.error # "closest_block")
            => Range(ViewKV'.stakers)
                 = Range(CachedStakers)
                     \cup get_staker_addresses_from_events(ScanStart + 1,
                                                           ViewKV'.block)
       /\ Range(kv.stakers) \subseteq Range(kv'.stakers)
      ]_vars

\* C28: the rewards a call of figure_out_rewards_for_month(y, m) returns are
\* computed with the total stake and every address's stake read at one
\* block, the block closest to the last instant of month m, also when that
\* block lies below the stored checkpoint.
C28_StakesReadAtSnapshotBlock ==
    [][(outcome'.op = "figure" /\ outcome'.ret = "rewards")
       => \E closest \in get_closest_block(
                           get_last_day_of_month(outcome'.year, outcome'.month)) :
            /\ totalAmountStaked(closest) # 0
            /\ outcome'.value
                 = WithAmounts(get_rewards_at_block(AddressesOf(outcome'.value),
                                                    closest))
      ]_vars

\* the ledger reads of figure_out_rewards_for_month that may fail
LedgerFaults == {"closest_block", "staked"}

\* C29: when the staker list is not empty and the total stake at the block
\* the rewards are computed at is zero, figure_out_rewards_for_month calls
\* send_message, raises, and creates no reward row; rewards are never
\* returned for a total of zero; with an empty staker list
\* get_rewards_at_block reads nothing from the ledger and the call returns
\* None without an alert.
C29_ZeroTotalIsAnError ==
    [][(/\ outcome'.op = "figure"
        /\ MayCreateRound(outcome'.year, outcome'.month)
        /\ outcome'.error \notin LedgerFaults)
       => /\ (ViewKV'.stakers # <<>>
              /\ totalAmountStaked(last_scanned_block_number') = 0)
               => (/\ outcome'.ret = "raise" /\ outcome'.alert
                   /\ outcome'.error = "zero_division"
                   /\ rewards' = rewards /\ rounds' = rounds)
          /\ outcome'.ret = "rewards"
               => totalAmountStaked(last_scanned_block_number') # 0
          /\ ViewKV'.stakers = <<>>
               => (/\ outcome'.ret = "None" /\ ~outcome'.alert
                   /\ outcome'.queries <= 2
                   /\ rewards' = rewards)
      ]_vars

\* the call has raised for a staker who had taken the whole stake out
C29_Witness ==
    /\ outcome.op = "figure" /\ outcome.error = "zero_division"
    /\ outcome.alert
    /\ session.kv.stakers # <<>>
    /\ totalAmountStaked(last_scanned_block_number) = 0
    /\ rewards = {}

\* C30: a call of figure_out_rewards_for_month interleaved with a run of
\* distribute_rewards, in any order of their steps, does no harm: no row has
\* more than one transfer; every row's state follows unsent -> sending ->
\* sent -> confirmed; a row that is not among the rows the run fetched (it
\* was created during the run) is left unsent by the run; and a run that
\* starts fetches every unsent row.
C30_FigureAndDistributeInterleave ==
    [][/\ \A r \in rewards' : Cardinality(TransfersFor(r.id)') <= 1
       /\ \A r \in rewards :
            /\ \E r2 \in rewards' : r2.id = r.id
            /\ \A r2 \in rewards' :
                 r2.id = r.id
                   => /\ r2.state = r.state
                         \/ <<r.state, r2.state>> \in TransitionTable
                      /\ (pc # "idle" /\ r.id \notin Range(run.queue)) => r2 = r
       /\ \A r2 \in rewards' :
            (\A r \in rewards : r.id # r2.id) => r2.state = "unsent"
       /\ (pc = "idle" /\ pc' = "sending")
            => Range(run'.queue) = {r.id : r \in RewardsIn("unsent")}
      ]_vars

\* while a run is at its second row, with its first row sent, a row that
\* the run did not fetch has been committed and is unsent
C30_Witness ==
    /\ pc = "transact" /\ run.idx = 2
    /\ RewardById(run.queue[1]).state = "sent"
    /\ \E r \in RewardsIn("unsent") : r.id \notin Range(run.queue)
    /\ peer = NoPeer

Frame(r) ==
    [id |-> r.id, user_address |-> r.user_address, percentage |-> r.percentage,
     amount_wei |-> r.amount_wei,
     distribution_round_id |-> r.distribution_round_id]

\* C32: a step of distribute_rewards changes nothing but the state and the
\* transaction hash of reward rows: address, percentage, amount and round id
\* of every row, every round and both checkpoint keys stay as they are; a
\* call of figure_out_rewards_for_month changes and removes no committed
\* round and no committed reward row.
C32_FrameOfTheTwoOperations ==
    [][/\ (pc # "idle" \/ pc' # "idle" \/ outcome'.op = "distribute")
            => /\ rounds' = rounds
               /\ kv' = kv
               /\ {Frame(r) : r \in rewards'} = {Frame(r) : r \in rewards}
               /\ Cardinality(rewards') = Cardinality(rewards)
       /\ outcome'.op = "figure"
            => /\ rewards \subseteq rewards'
               /\ rounds \subseteq rounds'
      ]_vars

\* a run has sent both its rows and ended at the confirmation of the first
C32_Witness ==
    /\ outcome.op = "distribute" /\ outcome.error = "attribute"
    /\ Len(outcome.value) >= 2
    /\ \A id \in Range(outcome.value) :
         RewardById(id).state = "sent" /\ RewardById(id).amount_wei > 0
    /\ kv.hasBlock

\* C33: when figure_out_rewards_for_month raises, nothing of the call stays
\* behind: the rounds and the checkpoint keys that later calls of the
\* process see, and would commit, are those from before the call, and no
\* reward row was added.
C33_FailedCallLeavesNothing ==
    [][(outcome'.op = "figure" /\ outcome'.ret = "raise")
       => (/\ ViewRounds' = ViewRounds
           /\ ViewKV' = ViewKV
           /\ rewards' = rewards)
      ]_vars

\* the ids the reward rows of MaxMonth rounds can have
RewardIds == 1..(MaxMonth * Cardinality(Addresses))

\* the row with the id is committed in the state
InState(id, state) == \E r \in rewards : r.id = id /\ r.state = state

\* the receipt of the row's transfer has reported success
ReceiptSucceeded(id) ==
    \E i \in TransfersFor(id) : transfers[i].status = "success"

\* C34: with distribute_rewards invoked again and again, one run at a time,
\* every row that is sent and whose transfer's receipt reports success is
\* confirmed in the end, also when the run that sent it crashed or was
\* aborted before it confirmed the row.
C34_SentIsConfirmedInTheEnd ==
    \A id \in RewardIds :
        (InState(id, "sent") /\ ReceiptSucceeded(id)) ~> InState(id, "confirmed")

\* the snapshot block of the month is the stored checkpoint
AtCheckpoint(year, month) ==
    /\ ViewKV.hasBlock
    /\ get_closest_block(get_last_day_of_month(year, month)) = {ViewKV.block}

\* C35: get_stakers(b) with b equal to the stored last-scanned block returns
\* the staker set that was stored with it and leaves the stored set as it is.
C35_IdempotentAtCheckpoint ==
    [][(/\ outcome'.op = "figure"
        /\ MayCreateRound(outcome'.year, outcome'.month)
        /\ AtCheckpoint(outcome'.year, outcome'.month)
        /\ outcome'.error \notin LedgerFaults)
       => (/\ Range(ViewKV'.stakers) = Range(ViewKV.stakers)
           /\ ViewKV'.block = ViewKV.block
           /\ outcome'.ret = "rewards"
                => Range(AddressesOf(outcome'.value)) = Range(ViewKV.stakers))
      ]_vars

\* C36: the persisted last-scanned block never decreases: the committed
\* checkpoint is at least the genesis block and at least every value it held
\* before, and a call of figure_out_rewards_for_month leaves db_session with a
\* checkpoint at least the block get_stakers started from.
C36_CheckpointNeverDecreases ==
    [][/\ kv'.hasBlock => kv'.block >= GenesisBlock
       /\ kv.hasBlock => (kv'.hasBlock /\ kv'.block >= kv.block)
       /\ (outcome'.op = "figure" /\ ViewKV'.hasBlock)
            => (ViewKV'.block >= ScanStart /\ ScanStart >= GenesisBlock)
      ]_vars

\* a call for a snapshot block below the committed checkpoint has returned
C36_Witness ==
    /\ outcome.op = "figure"
    /\ outcome.ret = "rewards"
    /\ kv.hasBlock
    /\ kv.block = 2
    /\ get_closest_block(get_last_day_of_month(outcome.year, outcome.month)) = {1}

\* C37: within one DistributionRound there is at most one RewardDistribution
\* row per user address.
C37_OneRowPerAddressInRound ==
    \A r \in rewards : \A q \in rewards :
        (/\ r.distribution_round_id = q.distribution_round_id
         /\ r.user_address = q.user_address)
            => r.id = q.id

\* the only staker emitted two Staked events, both scanned, and has one row
C37_Witness ==
    /\ outcome.op = "figure"
    /\ outcome.ret = "rewards"
    /\ Height = 2
    /\ chain[1].user = chain[2].user
    /\ kv.hasBlock
    /\ kv.block = 2
    /\ Cardinality(rounds) = 1
    /\ Cardinality({r \in rewards : r.user_address = chain[1].user}) = 1

\* C38: a committed RewardDistribution row has a tx_hash exactly when its
\* state is sent or confirmed, and a tx_hash once stored is never changed.
C38_HashIffSent ==
    [][/\ \A r \in rewards' :
            (r.tx_hash # NoTxHash) <=> (r.state \in {"sent", "confirmed"})
       /\ \A r \in rewards : \A q \in rewards' :
            (r.id = q.id /\ r.tx_hash # NoTxHash) => q.tx_hash = r.tx_hash
      ]_vars
====
